---- MODULE Spec2Model ----
(***************************************************************************)
(* A model of the VFS dispatch engine of OS.js                             *)
(* (src/client/javascript/vfs/_fs.js).                                     *)
(*                                                                         *)
(* The program is callback driven.  The model is a small-step machine:     *)
(*   ctl    what runs next: a hook or a backend that has been invoked, a   *)
(*          value list being delivered to a callback, or an exception      *)
(*          that is propagating;                                           *)
(*   k      the chain of callback closures, innermost first: the function  *)
(*          that receives the next delivery, then the callback it holds;   *)
(*   tries  the try blocks that are on the JavaScript call stack,          *)
(*          innermost first, each with the closure chain its catch clause  *)
(*          delivers to;                                                   *)
(*   sync   TRUE while the public call has not yet returned to its caller. *)
(*   up     the forEach loop of VFS.upload, the one function that goes on   *)
(*          after a call it made, and the closures of its files that are   *)
(*          waiting for an answer.                                         *)
(* A hook or backend that answers asynchronously answers from a fresh      *)
(* call stack: no try block of the public call is on it any more.          *)
(* Every other call the code makes is the last statement of its function,  *)
(* so a normal return never runs further code and is not modelled.         *)
(***************************************************************************)
EXTENDS Integers, Sequences, FiniteSets, TLC

VARIABLES
  op,       \* the arguments of the public call being served
  ctl,      \* what runs next
  k,        \* callback closures, innermost first
  tries,    \* try blocks on the call stack, innermost first
  sync,     \* the public call has not returned yet
  trace,    \* what the call did, in order (observable events)
  outcome,  \* "none", "thrown" (out of the public call) or "uncaught"
  up        \* VFS.upload: its forEach loop and the files in flight

vars == <<op, ctl, k, tries, sync, trace, outcome, up>>

(***************************************************************************)
(* Bounds                                                                  *)
(***************************************************************************)
\* a hook invokes its continuation with 0..MaxHookArgs values
MaxHookArgs == 3
\* VFS.upload is called with MaxFiles files
MaxFiles == 2

(***************************************************************************)
(* JavaScript values.  A value is a sequence of strings: undefined is the  *)
(* empty sequence, an error message is the list of the templates that      *)
(* wrapped it, outermost first, followed by its cause.                     *)
(***************************************************************************)
Undef == <<>>
False == <<"false">>
True == <<"true">>
NullV == <<"null">>
Truthy(v) == v \notin {Undef, False, NullV}

\* API._(template): a localized message
Msg(t) == <<t>>
\* API._(template, arg): the template with its argument formatted into it
Fmt(t, a) == <<t>> \o a
\* Error.prototype.toString: "Error: " + message
ErrorToString(e) == <<"Error">> \o e

\* the i-th positional argument of a call made with the values vals
Arg(vals, i) == IF i <= Len(vals) THEN vals[i] ELSE Undef

(***************************************************************************)
(* The module registry (VFS.Modules): read-only for this subsystem.        *)
(* A path is identified with the name of the module whose pattern it       *)
(* matches; "nomatch" matches none; "undefined" is a missing path.         *)
(***************************************************************************)
Modules ==
  [ home |-> [internal |-> TRUE,  transport |-> "undefined", readOnly |-> FALSE],
    osjs |-> [internal |-> TRUE,  transport |-> "undefined", readOnly |-> TRUE],
    dav  |-> [internal |-> FALSE, transport |-> "webdav",    readOnly |-> FALSE],
    dav2 |-> [internal |-> FALSE, transport |-> "webdav",    readOnly |-> FALSE],
    ext  |-> [internal |-> FALSE, transport |-> "undefined", readOnly |-> FALSE],
    ext2 |-> [internal |-> FALSE, transport |-> "undefined", readOnly |-> FALSE] ]

ModuleNames == DOMAIN Modules
\* the paths the public operations are called with
Paths == {"home", "osjs", "dav", "dav2", "nomatch"}

\* VFS.getModuleFromPath(path): the name of the module the path matches, or
\* the absence marker.  The callers that need a module pass false and throw
\* ModuleNotFound themselves (lines 77-81, 140-142); the others guard the
\* lookup with "|| {}" (lines 157, 159, 201).
Null == "null"
GetModuleFromPath(path) == IF path \in ModuleNames THEN path ELSE Null

\* VFS.Modules[m] || {}: the fields of a module, undefined without one
TransportOf(m) == IF m \in ModuleNames THEN Modules[m].transport ELSE "undefined"
ReadOnlyOf(m) == IF m \in ModuleNames THEN Modules[m].readOnly ELSE FALSE

\* VFS.isInternalModule(path)
IsInternalModule(path) == path \in ModuleNames /\ Modules[path].internal

\* the path property of a raw argument: a string has none
RawPath(item) == IF item.form \in {"object", "file"} THEN item.path ELSE "undefined"

\* new VFS.File(item): the descriptor of a path string or of an object with a path
File(item) == [form |-> "file", path |-> item.path, type |-> item.type]

ModuleNotFound(path) == Fmt("ERR_VFSMODULE_NOT_FOUND_FMT", <<path>>)

(***************************************************************************)
(* Helpers of _fs.js                                                       *)
(***************************************************************************)
\* checkMetadataArgument(item, err): the error it throws, Undef when it returns
CheckMetadataArgumentError(item, err) ==
  IF item.form \notin {"string", "object", "file"} THEN Msg(err)
  ELSE IF GetModuleFromPath(item.path) = Null THEN ModuleNotFound(item.path)
  ELSE Undef

\* hasSameTransport(src, dest), lines 150-167
HasSameTransport(src, dest) ==
  \/ IsInternalModule(src.path) /\ IsInternalModule(dest.path)
  \/ TransportOf(GetModuleFromPath(src.path)) = TransportOf(GetModuleFromPath(dest.path))
  \/ GetModuleFromPath(src.path) = GetModuleFromPath(dest.path)

\* isReadOnly(item), lines 199-202; a path string has no path property
IsReadOnly(item) == ReadOnlyOf(GetModuleFromPath(RawPath(item))) = TRUE

(***************************************************************************)
(* The machine                                                             *)
(***************************************************************************)
\* what runs next; n is the number of the request() call it belongs to
\* (0 for a module invoked directly, without request())
Ctl(t, n, mod, meth, vals) == [t |-> t, n |-> n, mod |-> mod, meth |-> meth, vals |-> vals]
Idle == Ctl("idle", 0, "", "", <<>>)
\* the values vals are being passed to the innermost closure of k
Ret(vals) == Ctl("ret", 0, "", "", vals)
\* the exception e is propagating up the call stack
Throw(e) == Ctl("throw", 0, "", "", <<e>>)

\* a callback closure: the function f and what it captured
Frame(f, n, mod, meth, vals) == [f |-> f, n |-> n, mod |-> mod, meth |-> meth, vals |-> vals]
Fn(f) == Frame(f, 0, "", "", <<>>)
\* a try block on the call stack: its catch clause h delivers to the closures kk
Try(h, kk) == [h |-> h, k |-> kk]

\* an observable event
Ev(e, n, mod, meth, vals) == [e |-> e, n |-> n, mod |-> mod, meth |-> meth, vals |-> vals]

\* the part of the state a piece of code computes
St(c, kk, tt, tr) == [ctl |-> c, k |-> kk, tries |-> tt, trace |-> tr]

\* the number the next request() call gets
NextRid(tr) == Cardinality({i \in DOMAIN tr : tr[i].e = "pre"}) + 1

\* request(test, method, args, callback, options), lines 76-96: up to the
\* invocation of the pre-dispatch hook.  Its callers pass a string method, an
\* argument array and a function callback, so only the first check can fail.
Request(test, method, kont, tt, tr) ==
  LET d == GetModuleFromPath(test)
      n == NextRid(tr)
  IN IF d = Null
     THEN St(Throw(ModuleNotFound(test)), kont, tt, tr)
     ELSE St(Ctl("onVFSRequest", n, d, method, <<>>),
             <<Frame("vfsRequestCallback", n, d, method, <<>>)>> \o kont,
             tt,
             Append(tr, Ev("pre", n, d, method, <<>>)))

\* requestWrapper(args, errstr, callback, onfinished, options), lines 49-71
RequestWrapper(path, method, kont, tt, tr) ==
  LET fin == <<Frame("requestWrapper._finished", 0, "", method, <<>>)>> \o kont
  IN Request(path, method, fin, <<Try("requestWrapper.catch", fin)>> \o tt, tr)

\* the errstr each public operation passes to requestWrapper
ErrStr(method) ==
  CASE method = "exists"    -> "ERR_VFSMODULE_EXISTS_FMT"
    [] method = "unlink"    -> "ERR_VFSMODULE_UNLINK_FMT"
    [] method = "mkdir"     -> "ERR_VFSMODULE_MKDIR_FMT"
    [] method = "url"       -> "ERR_VFSMODULE_URL_FMT"
    [] method = "find"      -> "ERR_VFSMODULE_FIND_FMT"
    [] method = "scandir"   -> "ERR_VFSMODULE_SCANDIR_FMT"
    [] method = "fileinfo"  -> "ERR_VFSMODULE_FILEINFO_FMT"
    [] method = "trash"     -> "ERR_VFSMODULE_TRASH_FMT"
    [] method = "untrash"   -> "ERR_VFSMODULE_UNTRASH_FMT"
    [] method = "freeSpace" -> "ERR_VFSMODULE_FREESPACE_FMT"

\* VFS.exists(item, callback), lines 668-676
VFSExists(item, kont, tt, tr) ==
  LET e == CheckMetadataArgumentError(item, "ERR_VFS_EXPECT_FILE")
  IN IF e # Undef
     THEN St(Throw(e), kont, tt, tr)
     ELSE RequestWrapper(item.path, "exists", kont, tt, tr)

\* the operations that check their file argument and hand one request to
\* requestWrapper, with no onfinished: VFS.find (lines 224-232), VFS.scandir
\* (248-256), VFS.fileinfo (687-695), VFS.trash (906-914), VFS.untrash
\* (927-935) and VFS.freeSpace (967-979)
PlainMethods == {"find", "scandir", "fileinfo", "trash", "untrash", "freeSpace"}
VFSPlain(method, item, kont, tt, tr) ==
  LET e == CheckMetadataArgumentError(item, "ERR_VFS_EXPECT_FILE")
  IN IF e # Undef
     THEN St(Throw(e), kont, tt, tr)
     ELSE RequestWrapper(item.path, method, kont, tt, tr)

\* an options bag; given is FALSE for an argument that was left out
NoOptions == [given |-> FALSE, overwrite |-> FALSE, dialog |-> FALSE]

\* existsWrapper(item, callback, options), lines 172-194
ExistsWrapper(item, kont, tt, tr, options) ==
  LET t2 == <<Try("existsWrapper.catch", kont)>> \o tt
  IN IF options.given /\ options.overwrite = TRUE
     THEN St(Ret(<<>>), kont, t2, tr)
     ELSE VFSExists(item, <<Fn("existsWrapper.cb")>> \o kont, t2, tr)

\* VFS.mkdir(item, callback, options), lines 638-657: up to the first call
\* that leaves it
Mkdir(item, kont, tt, tr) ==
  LET e == CheckMetadataArgumentError(item, "ERR_VFS_EXPECT_FILE")
  IN IF e # Undef
     THEN St(Throw(e), kont, tt, tr)
     ELSE ExistsWrapper(File(item), <<Fn("mkdir.existsCb")>> \o kont, tt, tr, NoOptions)

\* VFS.unlink(item, callback, options), lines 596-619
Unlink(item, kont, tt, tr) ==
  LET e == CheckMetadataArgumentError(item, "ERR_VFS_EXPECT_FILE")
  IN IF e # Undef
     THEN St(Throw(e), kont, tt, tr)
     ELSE RequestWrapper(item.path, "unlink", kont, tt, tr)

\* VFS.url(item, callback), lines 706-716
VFSUrl(item, kont, tt, tr) ==
  LET e == CheckMetadataArgumentError(item, "ERR_VFS_EXPECT_FILE")
  IN IF e # Undef
     THEN St(Throw(e), kont, tt, tr)
     ELSE RequestWrapper(item.path, "url", kont, tt, tr)

\* API.createLoading(lname, ...) and API.destroyLoading(lname)
CreateLoading(tr) == Append(tr, Ev("loading", 0, "", "create", <<>>))
DestroyLoading(tr) == Append(tr, Ev("loading", 0, "", "destroy", <<>>))

\* VFS.download(args, callback), lines 831-872: up to the first call that
\* leaves it.  A path string has no path property.
Download(args, kont, tt, tr) ==
  LET e == CheckMetadataArgumentError(args, "ERR_VFS_EXPECT_FILE")
      dmodule == GetModuleFromPath(args.path)
  IN IF RawPath(args) = "undefined"
     THEN St(Throw(Msg("ERR_VFS_DOWNLOAD_NO_FILE")), kont, tt, tr)
     ELSE IF e # Undef THEN St(Throw(e), kont, tt, tr)
     ELSE IF ~IsInternalModule(args.path)
     THEN St(Ctl("backend", 0, dmodule, "read", <<>>),
             <<Fn("download.readCb")>> \o kont, tt,
             Append(CreateLoading(tr), Ev("req", 0, dmodule, "read", <<>>)))
     ELSE VFSUrl(File(args), <<Fn("download.urlCb")>> \o kont, tt, CreateLoading(tr))

(***************************************************************************)
(* VFS.copy, lines 413-499                                                 *)
(***************************************************************************)
\* the options of the running VFS.copy: VFS.move calls it without any (line 551)
CopyOptions == IF op.name = "copy" THEN op.options ELSE NoOptions

\* dialogProgress(prog), lines 434-438
DialogProgress(prog, tr) ==
  IF CopyOptions.dialog THEN Append(tr, Ev("progress", prog, "", "", <<>>)) ELSE tr

\* _finished(error, result) of VFS.copy, lines 441-446
CopyFinished(error, result, kont, tt, tr) ==
  St(Ret(<<error, result>>), kont, tt,
     IF ~Truthy(error) THEN Append(tr, Ev("msg", 0, "", "vfs:copy", <<>>)) ELSE tr)

\* a doRequest() that transfers every source
CopyUnsupportedNever(src) == FALSE
\* the sources doRequest() of VFS.copy does not transfer between transports,
\* line 461
CopyUnsupported(src) == src.type = "dir"

\* a read callback that reports the progress of the write callback
ProgressAfterReadFull == 50 + 50
\* the progress reported when the read, and when the write, has answered,
\* lines 469 and 477
ProgressAfterRead == 50
ProgressAfterWrite == 100

\* doRequest() of VFS.copy, lines 440-486, up to the first call it makes
CopyDoRequest(kont, tt, tr0) ==
  LET src == File(op.src)
      dest == File(op.dest)
      tr == Append(tr0, Ev("doRequest", 0, "", "copy", <<>>))
  IN IF HasSameTransport(src, dest)
     THEN Request(src.path, "copy", <<Fn("copy.sameCb")>> \o kont, tt, tr)
     ELSE IF CopyUnsupported(src)
     THEN CopyFinished(Fmt("ERR_VFSMODULE_COPY_FMT", <<"folders between transports">>),
                       Undef, kont, tt, tr)
     ELSE St(Ctl("backend", 0, GetModuleFromPath(src.path), "read", <<>>),
             <<Fn("copy.readCb")>> \o kont, tt,
             Append(tr, Ev("req", 0, GetModuleFromPath(src.path), "read", <<>>)))

\* VFS.copy(src, dest, callback, options), lines 413-432 and 488: up to the
\* first call that leaves it
Copy(src, dest, kont, tt, tr) ==
  LET esrc == CheckMetadataArgumentError(src, "ERR_VFS_EXPECT_SRC_FILE")
      edst == CheckMetadataArgumentError(dest, "ERR_VFS_EXPECT_DST_FILE")
  IN IF IsReadOnly(dest)
     THEN St(Ret(<<Fmt("ERR_VFSMODULE_READONLY_FMT", <<GetModuleFromPath(RawPath(dest))>>)>>),
             kont, tt, tr)
     ELSE IF esrc # Undef THEN St(Throw(esrc), kont, tt, tr)
     ELSE IF edst # Undef THEN St(Throw(edst), kont, tt, tr)
     ELSE ExistsWrapper(File(dest), <<Fn("copy.existsCb")>> \o kont, tt, tr, NoOptions)

(***************************************************************************)
(* VFS.move, lines 514-578                                                 *)
(***************************************************************************)
\* _finished(error, result) of VFS.move, lines 531-536
MoveFinished(error, result, kont, tt, tr) ==
  St(Ret(<<error, result>>), kont, tt,
     IF ~Truthy(error) THEN Append(tr, Ev("msg", 0, "", "vfs:move", <<>>)) ELSE tr)

\* doRequest() of VFS.move, lines 530-565, up to the first call that leaves it
MoveDoRequest(kont, tt, tr0) ==
  LET src == File(op.src)
      dest == File(op.dest)
      tr == Append(tr0, Ev("doRequest", 0, "", "move", <<>>))
  IN IF HasSameTransport(src, dest)
     THEN Request(src.path, "move", <<Fn("move.sameCb")>> \o kont, tt, tr)
     ELSE Copy(src, dest, <<Fn("move.copyCb")>> \o kont, tt, tr)

\* VFS.move(src, dest, callback, options), lines 514-528 and 567
Move(src, dest, kont, tt, tr) ==
  LET esrc == CheckMetadataArgumentError(src, "ERR_VFS_EXPECT_SRC_FILE")
      edst == CheckMetadataArgumentError(dest, "ERR_VFS_EXPECT_DST_FILE")
  IN IF esrc # Undef THEN St(Throw(esrc), kont, tt, tr)
     ELSE IF edst # Undef THEN St(Throw(edst), kont, tt, tr)
     ELSE IF IsReadOnly(File(dest))
     THEN St(Ret(<<Fmt("ERR_VFSMODULE_READONLY_FMT", <<GetModuleFromPath(dest.path)>>)>>),
             kont, tt, tr)
     ELSE ExistsWrapper(File(dest), <<Fn("move.existsCb")>> \o kont, tt, tr, NoOptions)

(***************************************************************************)
(* Inputs                                                                  *)
(***************************************************************************)
\* a file argument: a path string, an object with a path, a VFS.File, or
\* something else (an object without a path)
FileArgs ==
  [form : {"string", "object", "file"}, path : Paths, type : {"file", "dir"}]
    \cup {[form |-> "other", path |-> "undefined", type |-> "file"]}
\* no code reads the type of a destination
DestArgs == {a \in FileArgs : a.type = "file"}
NoArg == [form |-> "none", path |-> "undefined", type |-> "file"]
OptionBags ==
  { NoOptions,
    [given |-> TRUE, overwrite |-> TRUE, dialog |-> FALSE],
    [given |-> TRUE, overwrite |-> FALSE, dialog |-> TRUE] }

\* VFS.move reads no option; it hands them to request()
MoveOptionBags == {o \in OptionBags : ~o.dialog}

\* what a hook may pass to its continuation, by position
HookArgAt(i) ==
  CASE i = 1 -> {Undef, <<"hook error">>}
    [] i = 2 -> {<<"hook result">>, False}
    [] OTHER -> {<<"hook extra">>}
HookValsOfLen[n \in 0..MaxHookArgs + 1] ==
  IF n = 0 THEN {<<>>}
  ELSE {Append(v, x) : v \in HookValsOfLen[n - 1], x \in HookArgAt(n)}
HookVals == UNION {HookValsOfLen[n] : n \in 0..MaxHookArgs}

\* what a backend may pass to its callback: (error, result)
BackendVals ==
  { <<Undef, <<"backend result">>>>, <<Undef, False>>,
    <<<<"backend error">>, Undef>>, <<<<"backend error">>, <<"backend result">>>> }

(***************************************************************************)
(* Actions                                                                 *)
(***************************************************************************)
Apply(s) ==
  /\ ctl' = s.ctl
  /\ k' = s.k
  /\ tries' = s.tries
  /\ trace' = s.trace
  /\ UNCHANGED <<op, up, sync, outcome>>

\* the values ctl.vals are being passed to the closure f
Top(f) == ctl.t = "ret" /\ k # <<>> /\ Head(k).f = f
\* an exception has reached the try block whose catch clause is h
Caught(h) == ctl.t = "throw" /\ tries # <<>> /\ Head(tries).h = h

\* the forEach loop of VFS.upload (lines 770 and 800): i is the file it
\* handles next, n the length of args.files, app whether args.app is given,
\* later the closures of the hooks, modules and upload collaborators that
\* have returned without answering and answer from a later event
NoUpload == [i |-> 1, n |-> 0, app |-> FALSE, later |-> {}]

Init ==
  /\ op = [name |-> "none", src |-> NoArg, dest |-> NoArg, options |-> NoOptions]
  /\ ctl = Idle
  /\ k = <<>>
  /\ tries = <<>>
  /\ sync = FALSE
  /\ trace = <<>>
  /\ outcome = "none"
  /\ up = NoUpload

\* a public operation is called with a function callback; src and dest are
\* what its variables of these names hold when it leaves its first lines.
\* The operations share no state, so a behaviour makes one call.
Enter(name, src, dest, options, s) ==
  /\ op' = [name |-> name, src |-> src, dest |-> dest, options |-> options]
  /\ sync' = TRUE
  /\ outcome' = "none"
  /\ ctl' = s.ctl
  /\ k' = s.k
  /\ tries' = s.tries
  /\ trace' = s.trace

Call(name, src, dest, options, s) ==
  /\ ctl.t = "idle"
  /\ op.name = "none"
  /\ Enter(name, src, dest, options, s)
  /\ UNCHANGED up

\* VFS.exists(item, callback)
CallExists ==
  \E item \in FileArgs :
    Call("exists",
         IF CheckMetadataArgumentError(item, "ERR_VFS_EXPECT_FILE") = Undef
         THEN File(item) ELSE item,
         NoArg, NoOptions, VFSExists(item, <<Fn("user")>>, <<>>, <<>>))

\* hasSameTransport(src, dest) is called with two descriptors that resolve
CallHasSameTransport ==
  \E src, dest \in [form : {"file"}, path : ModuleNames, type : {"file", "dir"}] :
    Call("hasSameTransport", src, dest, NoOptions,
         St(Ctl("hasSameTransport", 0, "", "", <<>>), <<>>, <<>>, <<>>))

\* hasSameTransport returns, lines 153, 163, 166
HasSameTransportReturn ==
  /\ ctl.t = "hasSameTransport"
  /\ Apply(St(Ret(<<IF HasSameTransport(op.src, op.dest) THEN True ELSE False>>),
              k, tries, trace))

\* VFS.find, VFS.scandir, VFS.fileinfo, VFS.trash, VFS.untrash, VFS.freeSpace
CallPlain ==
  \E method \in PlainMethods, item \in FileArgs :
    Call(method,
         IF CheckMetadataArgumentError(item, "ERR_VFS_EXPECT_FILE") = Undef
         THEN File(item) ELSE item,
         NoArg, NoOptions, VFSPlain(method, item, <<Fn("user")>>, <<>>, <<>>))

\* the pre-dispatch hook h.onVFSRequest answers, now or later, or throws
OnVFSRequest ==
  /\ ctl.t = "onVFSRequest"
  /\ \/ \E vals \in HookVals, async \in BOOLEAN :
          /\ ctl' = Ret(vals)
          /\ tries' = IF async THEN <<>> ELSE tries
          /\ sync' = (sync /\ ~async)
          /\ UNCHANGED <<op, up, k, trace, outcome>>
     \/ /\ ctl' = Throw(<<"hook exception">>)
        /\ UNCHANGED <<op, up, k, tries, sync, trace, outcome>>

\* a hijack test that takes two values or more
IsHijackAtLeastTwo(vals) == Len(vals) >= 2
\* arguments.length === 2, lines 97 and 106: the hook hijacks the request
IsHijack(vals) == Len(vals) = 2

\* an invocation of the module outside any try block
RequestTriesNone(kont, tt) == tt
\* the try block around the invocation of the module, lines 103-119
RequestTries(kont, tt) == <<Try("request.catch", kont)>> \o tt

\* a hijack that hands the values of the hook to the callback given to the
\* module, which invokes the post-dispatch hook
HijackCallbackThroughPostHook(fr, kont) ==
  <<Frame("request.backendCb", fr.n, fr.mod, fr.meth, <<>>)>> \o kont
\* the closure a hijacking pre-dispatch hook's values go to, line 99:
\* callback(err, response)
HijackCallback(fr, kont) == kont

\* vfsRequestCallback, lines 96-120
VfsRequestCallback ==
  /\ Top("vfsRequestCallback")
  /\ LET fr == Head(k)
         kont == Tail(k)
     IN IF IsHijack(ctl.vals)
        THEN Apply(St(Ret(<<ctl.vals[1], ctl.vals[2]>>), HijackCallback(fr, kont), tries,
                      Append(trace, Ev("hijack", fr.n, fr.mod, fr.meth, <<>>))))
        ELSE Apply(St(Ctl("backend", fr.n, fr.mod, fr.meth, <<>>),
                      <<Frame("request.backendCb", fr.n, fr.mod, fr.meth, <<>>)>> \o kont,
                      RequestTries(kont, tries),
                      Append(trace, Ev("req", fr.n, fr.mod, fr.meth, <<>>))))

\* VFS.Modules[d].request(method, args, cb, options) takes the request or throws
ModuleRequest ==
  /\ ctl.t = "backend"
  /\ \/ ctl' = Ctl("pending", ctl.n, ctl.mod, ctl.meth, <<>>)
     \/ ctl' = Throw(<<"backend exception">>)
  /\ UNCHANGED <<op, up, k, tries, sync, trace, outcome>>

\* the backend invokes its callback with (error, result), before its
\* request method returns or later
ModuleComplete ==
  /\ ctl.t = "pending"
  /\ \E vals \in BackendVals, async \in BOOLEAN :
       /\ ctl' = Ret(vals)
       /\ tries' = IF async THEN <<>> ELSE tries
       /\ sync' = (sync /\ ~async)
       /\ trace' = Append(trace, Ev("comp", ctl.n, ctl.mod, ctl.meth, <<vals[1]>>))
  /\ UNCHANGED <<op, up, k, outcome>>

\* the callback request() gives the module, line 104: it invokes the
\* post-dispatch hook
RequestBackendCb ==
  /\ Top("request.backendCb")
  /\ LET fr == Head(k)
         err == Arg(ctl.vals, 1)
         res == Arg(ctl.vals, 2)
     IN Apply(St(Ctl("onVFSRequestCompleted", fr.n, fr.mod, fr.meth, <<err, res>>),
                 <<Frame("request.postCb", fr.n, fr.mod, fr.meth, <<err, res>>)>> \o Tail(k),
                 tries,
                 Append(trace, Ev("post", fr.n, fr.mod, fr.meth, <<>>))))

\* the post-dispatch hook h.onVFSRequestCompleted answers, now or later, or throws
OnVFSRequestCompleted ==
  /\ ctl.t = "onVFSRequestCompleted"
  /\ \/ \E vals \in HookVals, async \in BOOLEAN :
          /\ ctl' = Ret(vals)
          /\ tries' = IF async THEN <<>> ELSE tries
          /\ sync' = (sync /\ ~async)
          /\ UNCHANGED <<op, up, k, trace, outcome>>
     \/ /\ ctl' = Throw(<<"hook exception">>)
        /\ UNCHANGED <<op, up, k, tries, sync, trace, outcome>>

\* a continuation that passes on what the hook gave it, whatever its arity
PostCbArgsAlwaysHook(hookvals, err, res) == <<Arg(hookvals, 1), Arg(hookvals, 2)>>
\* the continuation of the post-dispatch hook, lines 105-113
PostCbArgs(hookvals, err, res) ==
  IF IsHijack(hookvals) THEN <<hookvals[1], hookvals[2]>> ELSE <<err, res>>

RequestPostCb ==
  /\ Top("request.postCb")
  /\ LET fr == Head(k)
     IN Apply(St(Ret(PostCbArgs(ctl.vals, fr.vals[1], fr.vals[2])), Tail(k), tries, trace))

\* the catch clause of request(), lines 115-119
RequestCatch ==
  /\ Caught("request.catch")
  /\ Apply(St(Ret(<<Fmt("ERR_VFSMODULE_EXCEPTION_FMT", ErrorToString(ctl.vals[1]))>>),
              Head(tries).k, Tail(tries), trace))

\* the directories a deleted path may lie in: the one configured as
\* PackageManager.UserPackages, or another one
UserPackages == "home/.packages"
Dirnames == {UserPackages, "home"}

\* _checkPath() of VFS.unlink, lines 603-610; op.dest.path holds
\* Utils.dirname(item.path) while VFS.unlink runs
CheckPath(tr) ==
  IF op.dest.path = UserPackages
  THEN Append(tr, Ev("generateUserMetadata", 0, "", "", <<>>))
  ELSE tr

\* an onfinished that announces the deletion whatever the error
UnlinkNotifiesAlways(error) == TRUE
\* if ( !error ), line 612
UnlinkNotifies(error) == ~Truthy(error)

\* onfinished(error, response), lines 55-57: VFS.unlink hands requestWrapper
\* one that announces the deletion (lines 611-618), VFS.mkdir hands requestWrapper
\* one that announces the directory (lines 650-655); VFS.exists and the
\* other operations modelled here hand it none
OnFinished(method, error, tr) ==
  IF method = "mkdir" /\ ~Truthy(error)
  THEN Append(tr, Ev("msg", 0, "", "vfs:mkdir", <<>>))
  ELSE IF method = "unlink" /\ UnlinkNotifies(error)
  THEN CheckPath(Append(tr, Ev("msg", 0, "", "vfs:unlink", <<>>)))
  ELSE tr

\* Utils.checkdir(response): the URL made absolute
CheckDir(response) == <<"checkdir">> \o response

\* what onfinished returns, line 56: VFS.url's (lines 712-714) answers false
\* or the checked URL, the others answer the response
OnFinishedResponse(method, error, response) ==
  IF method = "url"
  THEN IF Truthy(error) THEN False ELSE CheckDir(response)
  ELSE response

\* _finished(error, response) of requestWrapper, lines 50-59
RequestWrapperFinished ==
  /\ Top("requestWrapper._finished")
  /\ LET fr == Head(k)
         error == IF Truthy(Arg(ctl.vals, 1))
                  THEN Fmt(ErrStr(fr.meth), Arg(ctl.vals, 1))
                  ELSE Arg(ctl.vals, 1)
     IN Apply(St(Ret(<<error, OnFinishedResponse(fr.meth, error, Arg(ctl.vals, 2))>>),
                 Tail(k), tries, OnFinished(fr.meth, error, trace)))

\* the catch clause of requestWrapper, lines 68-70: _finished(e)
RequestWrapperCatch ==
  /\ Caught("requestWrapper.catch")
  /\ Apply(St(Ret(<<ctl.vals[1]>>), Head(tries).k, Tail(tries), trace))

\* a callback that ignores the result of VFS.exists
ExistsCbArgsIgnore(result) == <<>>
\* what the callback existsWrapper gives VFS.exists passes on, lines 184-188
ExistsCbArgs(result) ==
  IF Truthy(result) THEN <<Msg("ERR_VFS_FILE_EXISTS")>> ELSE <<>>

\* a callback that hands the error of VFS.exists on
ExistsWrapperCbReporting ==
  /\ Top("existsWrapper.cb")
  /\ Apply(St(Ret(IF Truthy(Arg(ctl.vals, 1))
                  THEN <<Arg(ctl.vals, 1)>>
                  ELSE ExistsCbArgs(Arg(ctl.vals, 2))),
              Tail(k), tries,
              Append(trace, Ev("exists", 0, "",
                               IF Truthy(Arg(ctl.vals, 2)) THEN "found" ELSE "absent",
                               <<>>))))
\* the callback existsWrapper gives VFS.exists, lines 179-189
ExistsWrapperCb ==
  /\ Top("existsWrapper.cb")
  /\ Apply(St(Ret(ExistsCbArgs(Arg(ctl.vals, 2))), Tail(k), tries,
              Append(trace, Ev("exists", 0, "",
                               IF Truthy(Arg(ctl.vals, 2)) THEN "found" ELSE "absent",
                               <<>>))))

\* the catch clause of existsWrapper, lines 191-193
ExistsWrapperCatch ==
  /\ Caught("existsWrapper.catch")
  /\ Apply(St(Ret(<<ctl.vals[1]>>), Head(tries).k, Tail(tries), trace))

\* the caller's callback is invoked
UserCallback ==
  /\ Top("user")
  /\ trace' = Append(trace, Ev("cb", Head(k).n, "", "", ctl.vals))
  /\ ctl' = Idle
  /\ k' = <<>>
  /\ tries' = <<>>
  /\ sync' = FALSE
  /\ UNCHANGED <<op, up, outcome>>

\* no try block is left on the call stack: the exception leaves the public
\* call, or is lost when the call has returned already
Escape ==
  /\ ctl.t = "throw"
  /\ tries = <<>>
  /\ outcome' = IF sync THEN "thrown" ELSE "uncaught"
  /\ trace' = Append(trace, Ev("exc", 0, "", "", ctl.vals))
  /\ ctl' = Idle
  /\ k' = <<>>
  /\ sync' = FALSE
  /\ UNCHANGED <<op, up, tries>>

\* VFS.mkdir(item, callback, options)
CallMkdir ==
  \E item \in FileArgs, options \in MoveOptionBags :
    Call("mkdir",
         IF CheckMetadataArgumentError(item, "ERR_VFS_EXPECT_FILE") = Undef
         THEN File(item) ELSE item,
         NoArg, options, Mkdir(item, <<Fn("user")>>, <<>>, <<>>))

\* the callback VFS.mkdir gives existsWrapper, lines 645-656
MkdirExistsCb ==
  /\ Top("mkdir.existsCb")
  /\ LET error == Arg(ctl.vals, 1)
     IN IF Truthy(error)
        THEN Apply(St(Ret(<<Fmt("ERR_VFSMODULE_MKDIR_FMT", error)>>), Tail(k), tries, trace))
        ELSE Apply(RequestWrapper(op.src.path, "mkdir", Tail(k), tries, trace))

\* VFS.copy(src, dest, callback, options).  It reads dest before it makes a
\* descriptor of it (line 419), so op keeps dest as it was given.
CallCopy ==
  \E src \in FileArgs, dest \in DestArgs, options \in OptionBags :
    LET checked == /\ ~IsReadOnly(dest)
                   /\ CheckMetadataArgumentError(src, "ERR_VFS_EXPECT_SRC_FILE") = Undef
                   /\ CheckMetadataArgumentError(dest, "ERR_VFS_EXPECT_DST_FILE") = Undef
    IN Call("copy",
            IF checked THEN File(src) ELSE src,
            dest,
            options, Copy(src, dest, <<Fn("user")>>, <<>>, <<>>))

\* the callback VFS.copy gives existsWrapper, lines 488-498
CopyExistsCb ==
  /\ Top("copy.existsCb")
  /\ LET error == Arg(ctl.vals, 1)
         kont == Tail(k)
     IN IF Truthy(error)
        THEN Apply(St(Ret(<<Fmt("ERR_VFSMODULE_COPY_FMT", error)>>), kont, tries, trace))
        ELSE Apply(CopyDoRequest(kont, <<Try("copy.catch", kont)>> \o tries, trace))

\* the catch clause around doRequest() in VFS.copy, lines 494-496
CopyCatch ==
  /\ Caught("copy.catch")
  /\ Apply(St(Ret(<<Fmt("ERR_VFSMODULE_COPY_FMT", ctl.vals[1])>>),
              Head(tries).k, Tail(tries), trace))

\* the callback of the 'copy' request, lines 449-455
CopySameCb ==
  /\ Top("copy.sameCb")
  /\ LET error == Arg(ctl.vals, 1)
     IN Apply(CopyFinished(IF Truthy(error) THEN Fmt("ERR_VFSMODULE_COPY_FMT", error) ELSE error,
                           Arg(ctl.vals, 2), Tail(k), tries,
                           DialogProgress(ProgressAfterWrite, trace)))

\* the mime of a descriptor, as a value that names the descriptor
Mime(item) == <<"mime", item.path>>

\* a destination that keeps its own mime
DestMimeKept(src, dest) == Mime(dest)
\* dest.mime = src.mime, line 466
DestMime(src, dest) == Mime(src)

\* a read callback that goes on whatever the read answered
ReadFailedNever(error) == FALSE
\* if ( error ), line 471
ReadFailed(error) == Truthy(error)

\* the callback of the 'read' on the source module, lines 468-484; the
\* write is invoked with [dest, data]
CopyReadCb ==
  /\ Top("copy.readCb")
  /\ LET error == Arg(ctl.vals, 1)
         data == Arg(ctl.vals, 2)
         dest == File(op.dest)
         tr == DialogProgress(ProgressAfterRead, trace)
     IN IF ReadFailed(error)
        THEN Apply(CopyFinished(Fmt("ERR_VFS_TRANSFER_FMT", error), Undef, Tail(k), tries, tr))
        ELSE Apply(St(Ctl("backend", 0, GetModuleFromPath(dest.path), "write",
                          <<DestMime(File(op.src), dest), data>>),
                      <<Fn("copy.writeCb")>> \o Tail(k), tries,
                      Append(tr, Ev("req", 0, GetModuleFromPath(dest.path), "write", <<>>))))

\* the callback of the 'write' on the destination module, lines 476-483
CopyWriteCb ==
  /\ Top("copy.writeCb")
  /\ LET error == Arg(ctl.vals, 1)
     IN Apply(CopyFinished(IF Truthy(error) THEN Fmt("ERR_VFSMODULE_COPY_FMT", error) ELSE error,
                           Arg(ctl.vals, 2), Tail(k), tries,
                           DialogProgress(ProgressAfterWrite, trace)))

\* the body of VFS.move starts to run with these arguments
MoveEnter(src, dest, options) ==
  LET checked == /\ CheckMetadataArgumentError(src, "ERR_VFS_EXPECT_SRC_FILE") = Undef
                 /\ CheckMetadataArgumentError(dest, "ERR_VFS_EXPECT_DST_FILE") = Undef
  IN Enter("move",
           IF checked THEN File(src) ELSE src,
           IF checked THEN File(dest) ELSE dest,
           options, Move(src, dest, <<Fn("user")>>, <<>>, <<>>))

\* VFS.move(src, dest, callback, options)
CallMove ==
  \E src \in FileArgs, dest \in DestArgs, options \in MoveOptionBags :
    /\ ctl.t = "idle"
    /\ op.name = "none"
    /\ MoveEnter(src, dest, options)
    /\ UNCHANGED up

\* VFS.rename(src, dest, callback) called with these arguments, line 579
CallRename ==
  \E src \in FileArgs, dest \in DestArgs, options \in MoveOptionBags :
    Call("rename", src, dest, options,
         St(Ctl("apply", 0, "", "move", <<>>), <<Fn("user")>>, <<>>, <<>>))

\* an apply that hands on the declared parameters only
RenameArgumentsDeclared(src, dest, options) == <<src, dest, NoOptions>>
\* arguments, line 580: everything VFS.rename was called with
RenameArguments(src, dest, options) == <<src, dest, options>>

\* VFS.move.apply(this, arguments), line 580
RenameApply ==
  /\ ctl.t = "apply"
  /\ ctl.meth = "move"
  /\ LET a == RenameArguments(op.src, op.dest, op.options)
     IN MoveEnter(a[1], a[2], a[3])
  /\ UNCHANGED up

\* the callback VFS.move gives existsWrapper, lines 567-577
MoveExistsCb ==
  /\ Top("move.existsCb")
  /\ LET error == Arg(ctl.vals, 1)
         kont == Tail(k)
     IN IF Truthy(error)
        THEN Apply(St(Ret(<<Fmt("ERR_VFSMODULE_MOVE_FMT", error)>>), kont, tries, trace))
        ELSE Apply(MoveDoRequest(kont, <<Try("move.catch", kont)>> \o tries, trace))

\* the catch clause around doRequest() in VFS.move, lines 573-575
MoveCatch ==
  /\ Caught("move.catch")
  /\ Apply(St(Ret(<<Fmt("ERR_VFSMODULE_MOVE_FMT", ctl.vals[1])>>),
              Head(tries).k, Tail(tries), trace))

\* the callback of the 'move' request, lines 539-544
MoveSameCb ==
  /\ Top("move.sameCb")
  /\ LET error == Arg(ctl.vals, 1)
     IN IF Truthy(error)
        THEN Apply(MoveFinished(Fmt("ERR_VFSMODULE_MOVE_FMT", error), NullV, Tail(k), tries, trace))
        ELSE Apply(MoveFinished(error, Arg(ctl.vals, 2), Tail(k), tries, trace))

\* the callback VFS.move gives VFS.copy, lines 551-563
MoveCopyCb ==
  /\ Top("move.copyCb")
  /\ LET error == Arg(ctl.vals, 1)
         src == File(op.src)
         tr == Append(trace, Ev("copycb", 0, "", "", ctl.vals))
     IN IF Truthy(error)
        THEN Apply(MoveFinished(Fmt("ERR_VFS_TRANSFER_FMT", error), Undef, Tail(k), tries, tr))
        ELSE Apply(St(Ctl("backend", 0, GetModuleFromPath(src.path), "unlink", <<>>),
                      <<Fn("move.unlinkCb")>> \o Tail(k), tries,
                      Append(tr, Ev("req", 0, GetModuleFromPath(src.path), "unlink", <<>>))))

\* an unlink callback that reports success whatever the module answered
UnlinkErrorDropped(error) == Undef
\* the error the unlink callback reports, lines 558-560
UnlinkError(error) ==
  IF Truthy(error) THEN Fmt("ERR_VFS_TRANSFER_FMT", error) ELSE error

\* the callback of the 'unlink' on the source module, lines 557-562
MoveUnlinkCb ==
  /\ Top("move.unlinkCb")
  /\ LET error == Arg(ctl.vals, 1)
     IN Apply(MoveFinished(UnlinkError(error), Arg(ctl.vals, 2), Tail(k), tries, trace))

\* the dispatcher: request(), requestWrapper, the hooks and the backends
RequestSteps ==
  \/ OnVFSRequest
  \/ VfsRequestCallback
  \/ ModuleRequest
  \/ ModuleComplete
  \/ RequestBackendCb
  \/ OnVFSRequestCompleted
  \/ RequestPostCb
  \/ RequestCatch
  \/ RequestWrapperFinished
  \/ RequestWrapperCatch
  \/ UserCallback
  \/ Escape

\* the steps of VFS.copy that VFS.move reaches too
CopyCrossSteps ==
  \/ ExistsWrapperCb
  \/ CopyExistsCb
  \/ CopyCatch
  \/ CopyReadCb
  \/ CopyWriteCb

CopySteps == CopyCrossSteps \/ CopySameCb

MoveSteps ==
  \/ MoveExistsCb
  \/ MoveCatch
  \/ MoveSameCb
  \/ MoveCopyCb
  \/ MoveUnlinkCb

\* single requests through requestWrapper
NextRequest == CallExists \/ RequestSteps

\* the operations that are one request through requestWrapper
NextPlain == CallExists \/ CallPlain \/ RequestSteps
SpecPlain == Init /\ [][NextPlain]_vars
SpecRequest == Init /\ [][NextRequest]_vars

\* VFS.copy
NextCopy == CallCopy \/ RequestSteps \/ CopySteps
SpecCopy == Init /\ [][NextCopy]_vars

\* VFS.move
NextMove == CallMove \/ RequestSteps \/ CopyCrossSteps \/ MoveSteps
SpecMove == Init /\ [][NextMove]_vars

\* the state VFS.unlink leaves when it is entered with item, a path in dir
UnlinkEnter(name, item, dir, options) ==
  Enter(name,
        IF CheckMetadataArgumentError(item, "ERR_VFS_EXPECT_FILE") = Undef
        THEN File(item) ELSE item,
        [form |-> "none", path |-> dir, type |-> "dir"],
        options, Unlink(item, <<Fn("user")>>, <<>>, <<>>))

\* VFS.unlink(item, callback, options)
CallUnlink ==
  \E item \in FileArgs, dir \in Dirnames, options \in MoveOptionBags :
    /\ ctl.t = "idle"
    /\ op.name = "none"
    /\ UnlinkEnter("unlink", item, dir, options)
    /\ UNCHANGED up

\* VFS['delete'](item, callback) called with these arguments, line 620
CallDelete ==
  \E item \in FileArgs, dir \in Dirnames, options \in MoveOptionBags :
    Call("delete", item, [form |-> "none", path |-> dir, type |-> "dir"], options,
         St(Ctl("apply", 0, "", "unlink", <<>>), <<Fn("user")>>, <<>>, <<>>))

\* VFS.unlink.apply(this, arguments), line 621
DeleteApply ==
  /\ ctl.t = "apply"
  /\ ctl.meth = "unlink"
  /\ UnlinkEnter("delete", op.src, op.dest.path, op.options)
  /\ UNCHANGED up

\* VFS.unlink and VFS['delete']
NextUnlink == CallUnlink \/ CallDelete \/ DeleteApply \/ RequestSteps
SpecUnlink == Init /\ [][NextUnlink]_vars

\* VFS.download(args, callback)
CallDownload ==
  \E args \in FileArgs :
    Call("download",
         IF RawPath(args) # "undefined"
            /\ CheckMetadataArgumentError(args, "ERR_VFS_EXPECT_FILE") = Undef
         THEN File(args) ELSE args,
         NoArg, NoOptions, Download(args, <<Fn("user")>>, <<>>, <<>>))

\* the callback of the 'read' on the module, lines 859-868
DownloadReadCb ==
  /\ Top("download.readCb")
  /\ LET error == Arg(ctl.vals, 1)
         result == Arg(ctl.vals, 2)
     IN Apply(St(Ret(IF Truthy(error)
                     THEN <<Fmt("ERR_VFS_DOWNLOAD_FAILED", error)>>
                     ELSE <<False, result>>),
                 Tail(k), tries, DestroyLoading(trace)))

\* the callback VFS.download gives VFS.url, lines 872-890: it returns
\* callback(error) or calls Utils.ajax; onerror keeps the error it got
DownloadUrlCb ==
  /\ Top("download.urlCb")
  /\ LET error == Arg(ctl.vals, 1)
         url == Arg(ctl.vals, 2)
     IN IF Truthy(error)
        THEN Apply(St(Ret(<<error>>), Tail(k), tries, trace))
        ELSE Apply(St(Ctl("ajax", 0, "", "GET", <<url>>),
                      <<Frame("download.ajaxCb", 0, "", "", <<error>>)>> \o Tail(k),
                      tries,
                      Append(trace, Ev("ajax", 0, "", "GET", <<url>>))))

\* what Utils.ajax reports: onsuccess(result) or onerror(result)
AjaxVals == { <<<<"onsuccess">>, <<"bytes">>>>, <<<<"onerror">>, <<"ajax error">>>> }

\* Utils.ajax invokes onsuccess or onerror, before it returns or later
UtilsAjax ==
  /\ ctl.t = "ajax"
  /\ \E vals \in AjaxVals, async \in BOOLEAN :
       /\ ctl' = Ret(vals)
       /\ tries' = IF async THEN <<>> ELSE tries
       /\ sync' = (sync /\ ~async)
       /\ trace' = Append(trace, Ev("fetched", 0, "", vals[1][1], <<vals[2]>>))
  /\ UNCHANGED <<op, up, k, outcome>>

\* onsuccess and onerror of VFS.download, lines 880-887
DownloadAjaxCb ==
  /\ Top("download.ajaxCb")
  /\ LET error == Head(k).vals[1]
         result == Arg(ctl.vals, 2)
     IN Apply(St(Ret(IF Arg(ctl.vals, 1) = <<"onsuccess">>
                     THEN <<False, result>>
                     ELSE <<error>>),
                 Tail(k), tries, DestroyLoading(trace)))

DownloadSteps ==
  \/ DownloadReadCb
  \/ DownloadUrlCb
  \/ UtilsAjax
  \/ DownloadAjaxCb

\* VFS.download
NextDownload == CallDownload \/ RequestSteps \/ DownloadSteps
SpecDownload == Init /\ [][NextDownload]_vars

(***************************************************************************)
(* VFS.upload, lines 734-817.  Its forEach loop stays on the call stack    *)
(* while a file's hook, module or collaborator is invoked: one that        *)
(* returns without having answered leaves its closures in up.later, the    *)
(* loop goes on with the next file, and the closures run from later        *)
(* events, in any order, once VFS.upload has returned.                     *)
(***************************************************************************)
\* the destinations VFS.upload is called with; "undefined" is a missing one
UploadDestinations == {"home", "dav", "nomatch", "undefined"}

\* the callback of VFS.upload, as the i-th file's closures hold it
UploadCallback(i) == Frame("user", i, "", "", <<>>)

\* VFS.upload(args, callback, options) with two arguments or more: lines
\* 734-746, the checks before the loop
CallUpload ==
  \E hasFiles \in BOOLEAN, destination \in UploadDestinations, app \in BOOLEAN,
     options \in MoveOptionBags :
    /\ ctl.t = "idle"
    /\ op.name = "none"
    /\ Enter("upload", NoArg,
             [form |-> "string", path |-> destination, type |-> "file"], options,
             St(IF ~hasFiles THEN Throw(Msg("ERR_VFS_UPLOAD_NO_FILES"))
                ELSE IF destination = "undefined" THEN Throw(Msg("ERR_VFS_UPLOAD_NO_DEST"))
                ELSE Idle,
                <<>>, <<>>, <<>>))
    /\ up' = IF hasFiles /\ destination # "undefined"
             THEN [i |-> 1, n |-> MaxFiles, app |-> app, later |-> {}]
             ELSE NoUpload

\* the forEach loop has a file left and no exception has left VFS.upload
UploadLooping == op.name = "upload" /\ up.i <= up.n /\ outcome = "none"

\* one iteration of args.files.forEach: lines 770-772 for a destination that
\* is not internal, lines 800-815 for an internal one
UploadForEach ==
  /\ UploadLooping
  /\ ctl.t = "idle"
  /\ LET user == <<UploadCallback(up.i)>>
         s == IF ~IsInternalModule(op.dest.path)
              THEN Request(op.dest.path, "upload", user, <<>>, trace)
              ELSE ExistsWrapper(File(op.dest),
                                 <<Frame("upload.existsCb", up.i, "", "", <<>>)>> \o user,
                                 <<>>, trace, op.options)
     IN /\ ctl' = s.ctl
        /\ k' = s.k
        /\ tries' = s.tries
        /\ trace' = s.trace
  /\ sync' = TRUE
  /\ up' = [up EXCEPT !.i = @ + 1]
  /\ UNCHANGED <<op, outcome>>

\* a hook, a module or an upload collaborator returns without having
\* answered: the code that invoked it returns to the loop or to the event loop
UploadLater ==
  /\ op.name = "upload"
  /\ ctl.t \in {"onVFSRequest", "pending", "onVFSRequestCompleted", "uploading"}
  /\ up' = [up EXCEPT !.later = @ \cup {[ctl |-> ctl, k |-> k]}]
  /\ ctl' = Idle
  /\ k' = <<>>
  /\ tries' = <<>>
  /\ sync' = FALSE
  /\ UNCHANGED <<op, trace, outcome>>

\* VFS.upload has returned and one of the invoked parties is about to
\* answer, from a call stack of its own
UploadResume ==
  /\ op.name = "upload"
  /\ ~UploadLooping
  /\ ctl.t = "idle"
  /\ \E c \in up.later :
       /\ ctl' = c.ctl
       /\ k' = c.k
       /\ up' = [up EXCEPT !.later = @ \ {c}]
  /\ tries' = <<>>
  /\ sync' = FALSE
  /\ UNCHANGED <<op, trace, outcome>>

\* the callback VFS.upload gives existsWrapper, lines 804-814, with
\* doRequest(f, i), lines 776-798, up to the call it makes
UploadExistsCb ==
  /\ Top("upload.existsCb")
  /\ LET fr == Head(k)
         error == Arg(ctl.vals, 1)
         mod == GetModuleFromPath(op.dest.path)
     IN IF Truthy(error)
        THEN Apply(St(Ret(<<error>>), Tail(k), tries, trace))
        ELSE IF up.app
        THEN Apply(St(Ctl("upload", fr.n, mod, "dialog", <<>>),
                      <<Frame("upload._dialogClose", fr.n, mod, "dialog", <<>>)>> \o Tail(k),
                      <<Try("upload.catch", Tail(k))>> \o tries,
                      Append(trace, Ev("upload", fr.n, mod, "dialog", <<>>))))
        ELSE Apply(St(Ctl("upload", fr.n, mod, "transport", <<>>),
                      <<Frame("upload.transportCb", fr.n, mod, "transport", <<>>)>> \o Tail(k),
                      <<Try("upload.catch", Tail(k))>> \o tries,
                      Append(trace, Ev("upload", fr.n, mod, "transport", <<>>))))

\* API.createDialog('FileUpload', ...) or VFS.Transports.Internal.upload(...)
\* takes the file or throws
UploadInvoke ==
  /\ ctl.t = "upload"
  /\ \/ ctl' = Ctl("uploading", ctl.n, ctl.mod, ctl.meth, <<>>)
     \/ ctl' = Throw(<<"upload exception">>)
  /\ UNCHANGED <<op, up, k, tries, sync, trace, outcome>>

\* what the upload dialog passes to _dialogClose: the button
DialogVals == { <<<<"ok">>>>, <<<<"complete">>>>, <<<<"cancel">>>> }
\* what the internal transport passes to its callback: (err, result, ev)
TransportVals ==
  { <<<<"canceled">>, Undef, <<"event">>>>,
    <<<<"failed">>, Undef, <<"event">>>>,
    <<<<"failed">>, Undef, Undef>>,
    <<False, <<"uploaded">>, <<"event">>>> }

\* the dialog closes, or the internal transport invokes its callback
UploadAnswer ==
  /\ ctl.t = "uploading"
  /\ \E vals \in IF ctl.meth = "dialog" THEN DialogVals ELSE TransportVals :
       ctl' = Ret(vals)
  /\ UNCHANGED <<op, up, k, tries, sync, trace, outcome>>

\* the callback doRequest gives the internal transport, lines 783-796
UploadTransportCb ==
  /\ Top("upload.transportCb")
  /\ LET err == Arg(ctl.vals, 1)
         ev == Arg(ctl.vals, 3)
     IN Apply(St(Ret(IF ~Truthy(err) THEN <<False, <<"file">>, ev>>
                     ELSE IF err = <<"canceled">>
                     THEN <<Msg("ERR_VFS_UPLOAD_CANCELLED"), NullV, ev>>
                     ELSE <<Fmt("ERR_VFS_UPLOAD_FAIL_FMT",
                                IF Truthy(ev) THEN ev ELSE <<"Unknown reason">>),
                            NullV, ev>>),
                 Tail(k), tries, trace))

\* _dialogClose(btn, filename, mime, size), lines 758-767
UploadDialogClose ==
  /\ Top("upload._dialogClose")
  /\ LET btn == Arg(ctl.vals, 1)
     IN IF btn \notin {<<"ok">>, <<"complete">>}
        THEN Apply(St(Ret(<<False, False>>), Tail(k), tries, trace))
        ELSE Apply(St(Ret(<<False, <<"file">>>>), Tail(k), tries,
                      Append(trace, Ev("msg", 0, "", "vfs:upload", <<>>))))

\* the catch clause around doRequest(f, i), lines 811-813
UploadCatch ==
  /\ Caught("upload.catch")
  /\ Apply(St(Ret(<<Fmt("ERR_VFS_UPLOAD_FAIL_FMT", ctl.vals[1])>>),
              Head(tries).k, Tail(tries), trace))

\* JavaScript runs the loop to its end before any later event: while the
\* loop has a file left, no step of a request is an answer from a later event
RunToCompletion == UploadLooping => (sync' = sync \/ ctl'.t = "idle")

UploadSteps ==
  \/ UploadForEach
  \/ UploadLater
  \/ UploadResume
  \/ UploadExistsCb
  \/ UploadInvoke
  \/ UploadAnswer
  \/ UploadTransportCb
  \/ UploadDialogClose
  \/ UploadCatch

\* VFS.upload
NextUpload ==
  \/ CallUpload
  \/ UploadSteps
  \/ ExistsWrapperCb
  \/ (RequestSteps /\ RunToCompletion)
SpecUpload == Init /\ [][NextUpload]_vars

\* the operations that check the destination with existsWrapper: VFS.move,
\* the VFS.copy it calls between two transports (line 551), and VFS.mkdir
NextExistsWrapper ==
  CallMove \/ CallMkdir \/ RequestSteps \/ CopyCrossSteps \/ MoveSteps \/ MkdirExistsCb
SpecExistsWrapper == Init /\ [][NextExistsWrapper]_vars

\* VFS.mkdir
NextMkdir == CallMkdir \/ RequestSteps \/ ExistsWrapperCb \/ MkdirExistsCb
SpecMkdir == Init /\ [][NextMkdir]_vars

\* hasSameTransport on its own
NextTransport == CallHasSameTransport \/ HasSameTransportReturn
SpecTransport == Init /\ [][NextTransport]_vars

\* VFS.rename
NextRename ==
  CallRename \/ RenameApply \/ RequestSteps \/ CopyCrossSteps \/ MoveSteps
SpecRename == Init /\ [][NextRename]_vars

\* every operation
Next ==
  \/ CallHasSameTransport \/ HasSameTransportReturn
  \/ CallMkdir \/ MkdirExistsCb
  \/ CallUpload \/ UploadSteps
  \/ CallDownload \/ DownloadSteps
  \/ CallUnlink \/ CallDelete \/ DeleteApply
  \/ CallExists \/ CallPlain \/ CallCopy \/ CallMove \/ CallRename \/ RenameApply
  \/ RequestSteps \/ CopySteps \/ MoveSteps
Spec == Init /\ [][Next]_vars

(***************************************************************************)
(* Properties                                                              *)
(***************************************************************************)
\* the positions of the events of one kind in the trace
Events(e) == {i \in DOMAIN trace : trace[i].e = e}
\* how often the caller's callback has been invoked
CbCount == Cardinality(Events("cb"))
\* the public call is over: nothing is left to run
Quiescent == op.name # "none" /\ ctl.t = "idle"
\* a request for one of the methods ms was handed to a hook or to a module
Dispatched(ms) ==
  \E i \in DOMAIN trace : trace[i].e \in {"pre", "req"} /\ trace[i].meth \in ms

\* C1: when the pre-dispatch hook invokes its continuation with exactly two
\* values, the module is never invoked for that request and the callback of
\* the request receives exactly those two values; with any other number of
\* values the module is invoked, and no request invokes its module twice.
C1_PreHookHijack ==
  /\ [](\A i, j \in DOMAIN trace :
          trace[i].e = "hijack" /\ trace[j].e = "req" => trace[i].n # trace[j].n)
  /\ [](\A i, j \in DOMAIN trace :
          /\ trace[i].e = "req" /\ trace[j].e = "req"
          /\ trace[i].n > 0 /\ trace[i].n = trace[j].n
          => i = j)
  /\ [][Top("vfsRequestCallback") =>
          IF Len(ctl.vals) = 2
          THEN /\ ctl' = Ret(ctl.vals)
               /\ k' = Tail(k)
               /\ Events("req")' = Events("req")
          ELSE /\ ctl'.t = "backend"
               /\ trace' = Append(trace, Ev("req", Head(k).n, Head(k).mod, Head(k).meth, <<>>))
      ]_vars

\* a pre-dispatch hook has just hijacked a request with an error and false
C1_Witness ==
  /\ trace # <<>>
  /\ trace[Len(trace)].e = "hijack"
  /\ ctl = Ret(<< <<"hook error">>, False >>)
  /\ Events("req") = {}

\* C2: when the post-dispatch hook invokes its continuation with exactly two
\* values, the callback of the request receives those two values in place of
\* the (error, result) of the backend; with any other number of values it
\* receives the (error, result) of the backend.
C2_PostHookHijack ==
  /\ [][Top("request.backendCb") =>
          /\ ctl'.t = "onVFSRequestCompleted"
          /\ Head(k').f = "request.postCb"
          /\ Head(k').vals = <<Arg(ctl.vals, 1), Arg(ctl.vals, 2)>>
          /\ Tail(k') = Tail(k)
      ]_vars
  /\ [][Top("request.postCb") =>
          /\ k' = Tail(k)
          /\ ctl' = Ret(IF Len(ctl.vals) = 2 THEN ctl.vals ELSE Head(k).vals)
      ]_vars

\* the backend succeeded, the post-dispatch hook replaced its answer, and the
\* caller of VFS.exists received the values of the hook
C2_Witness ==
  /\ \E i \in Events("comp") : trace[i].vals = <<Undef>>
  /\ Events("post") # {}
  /\ \E i \in Events("cb") :
       /\ trace[i].vals[1] = Fmt("ERR_VFSMODULE_EXISTS_FMT", <<"hook error">>)
       /\ trace[i].vals[2] = <<"hook result">>

\* C3: an exception the module throws synchronously when request() invokes
\* it does not propagate: the callback of the request is invoked with the
\* error ERR_VFSMODULE_EXCEPTION_FMT built from the exception, and no result.
C3_BackendThrowCaught ==
  [][(ctl.t = "backend" /\ ctl.n > 0 /\ ctl'.t = "throw") =>
        /\ Caught("request.catch")'
        /\ Head(tries').k = Tail(k')
     ]_vars
  /\ [][(ctl.t = "throw" /\ k # <<>> /\ Head(k).f = "request.backendCb") =>
        /\ ctl' = Ret(<<Fmt("ERR_VFSMODULE_EXCEPTION_FMT", ErrorToString(ctl.vals[1]))>>)
        /\ k' = Tail(k)
        /\ outcome' = "none"
     ]_vars

\* the backend of VFS.exists threw, and the caller received the error
C3_Witness ==
  /\ Events("req") # {}
  /\ \E i \in Events("cb") :
       trace[i].vals =
         << Fmt("ERR_VFSMODULE_EXISTS_FMT",
                Fmt("ERR_VFSMODULE_EXCEPTION_FMT", ErrorToString(<<"backend exception">>))),
            Undef >>

\* C4: when VFS.copy is called with a function callback, hooks and backends
\* that answer once or throw synchronously, the callback is invoked exactly
\* once or the call throws synchronously, and the callback is never invoked
\* twice nor after a throw, whichever stage of the transfer a backend throws in.
C4_CallbackExactlyOnce ==
  /\ CbCount <= 1
  /\ outcome = "thrown" => CbCount = 0
  /\ Quiescent => \/ outcome = "thrown" /\ CbCount = 0
                  \/ outcome = "none" /\ CbCount = 1

\* C5: in a VFS.copy without overwrite, when the exists request on the
\* destination answers a truthy result, the callback receives the error
\* ERR_VFS_FILE_EXISTS (wrapped by the copy) and no copy, read or write
\* request is issued.
C5_CopyExistingFails ==
  ( /\ op.name = "copy"
    /\ ~(op.options.given /\ op.options.overwrite)
    /\ \E i \in Events("exists") : trace[i].meth = "found" )
  => /\ ~Dispatched({"copy", "read", "write"})
     /\ outcome = "none"
     /\ \A i \in Events("cb") :
          trace[i].vals = <<Fmt("ERR_VFSMODULE_COPY_FMT", Msg("ERR_VFS_FILE_EXISTS"))>>
     /\ Quiescent => CbCount = 1

\* a copy without overwrite found its destination and told its caller
C5_Witness ==
  /\ op.name = "copy"
  /\ ~op.options.given
  /\ \E i \in Events("exists") : trace[i].meth = "found"
  /\ CbCount = 1

\* C6: a VFS.copy with options.overwrite === true issues no exists request
\* and never reports ERR_VFS_FILE_EXISTS.
C6_OverwriteSkipsExists ==
  (op.name = "copy" /\ op.options.given /\ op.options.overwrite = TRUE)
  => /\ ~Dispatched({"exists"})
     /\ \A i \in Events("cb") :
          Arg(trace[i].vals, 1) # Fmt("ERR_VFSMODULE_COPY_FMT", Msg("ERR_VFS_FILE_EXISTS"))

\* C7: a VFS.copy whose destination, in any accepted form (a path string, an
\* object with a path, a file descriptor), resolves to a readOnly module
\* reports ERR_VFSMODULE_READONLY_FMT naming the module to the callback, and
\* issues no exists, copy, read or write request.
C7_ReadOnlyDestination ==
  ( /\ op.name = "copy"
    /\ CheckMetadataArgumentError(op.src, "ERR_VFS_EXPECT_SRC_FILE") = Undef
    /\ op.dest.form \in {"string", "object", "file"}
    /\ ReadOnlyOf(GetModuleFromPath(op.dest.path)) )
  => /\ ~Dispatched({"exists", "copy", "read", "write"})
     /\ outcome = "none"
     /\ \A i \in Events("cb") :
          trace[i].vals =
            <<Fmt("ERR_VFSMODULE_READONLY_FMT", <<GetModuleFromPath(op.dest.path)>>)>>
     /\ Quiescent => CbCount = 1

\* C8: a VFS.copy of a directory that has passed the readOnly and existence
\* checks: between two transports it reports ERR_VFSMODULE_COPY_FMT (folders
\* between transports) and issues no read and no write; within one transport
\* it dispatches exactly one copy request, and no read and no write.
C8_DirectoryCopy ==
  ( /\ op.name = "copy"
    /\ op.src.type = "dir"
    /\ Events("doRequest") # {} )
  => /\ ~Dispatched({"read", "write"})
     /\ IF HasSameTransport(op.src, op.dest)
        THEN Cardinality({i \in Events("pre") : trace[i].meth = "copy"}) = 1
        ELSE /\ ~Dispatched({"copy"})
             /\ outcome = "none"
             /\ \A i \in Events("cb") :
                  trace[i].vals =
                    << Fmt("ERR_VFSMODULE_COPY_FMT", <<"folders between transports">>),
                       Undef >>
             /\ Quiescent => CbCount = 1

\* a directory was refused between two transports, and the caller was told
C8_Witness ==
  /\ op.name = "copy"
  /\ op.src.type = "dir"
  /\ Events("doRequest") # {}
  /\ ~HasSameTransport(op.src, op.dest)
  /\ CbCount = 1

\* the progress values reported so far, in order
IsProgress(ev) == ev.e = "progress"
ProgressSeq == SelectSeq(trace, IsProgress)
\* the write on the destination module has answered
WriteAnswered(ok) ==
  \E i \in Events("comp") :
    /\ trace[i].n = 0
    /\ trace[i].meth = "write"
    /\ ok => ~Truthy(trace[i].vals[1])
\* a copy between two transports that reports its progress
CrossCopyWithDialog ==
  /\ op.name = "copy"
  /\ op.options.dialog
  /\ Events("doRequest") # {}
  /\ ~HasSameTransport(op.src, op.dest)

C10_UnlinkOnlyAfterCopy ==
  op.name = "move" =>
    /\ \A j \in Events("req") :
         trace[j].meth = "unlink" =>
           \E i \in Events("copycb") : i < j /\ ~Truthy(Arg(trace[i].vals, 1))
    /\ (\E i \in Events("copycb") : Truthy(Arg(trace[i].vals, 1)))
       => /\ ~Dispatched({"unlink"})
          /\ \A i \in Events("cb") : Truthy(Arg(trace[i].vals, 1))

\* C11: VFS.rename called with the arguments of a VFS.move starts the body
\* of VFS.move in the state that call of VFS.move starts it in, so the
\* requests, the callback arguments and the synchronous errors that follow
\* are those of the move.
C11_RenameIsMove ==
  [][ctl.t = "apply" => MoveEnter(op.src, op.dest, op.options)]_vars

\* a rename with options went through a 'move' request and called back
C11_Witness ==
  /\ op.name = "move"
  /\ op.options.given
  /\ \E i \in Events("req") : trace[i].meth = "move"
  /\ CbCount = 1

\* a file argument of the call, in an accepted form, whose path no module matches
Unmatched(item) ==
  item.form \in {"string", "object", "file"} /\ GetModuleFromPath(item.path) = Null
\* every file argument of the call has an accepted form
WellFormed(item) == item.form \in {"string", "object", "file", "none"}
\* the call has thrown e: it is propagating out of the call, or has left it
ThrewSync(e) ==
  \/ ctl = Throw(e) /\ tries = <<>> /\ sync /\ trace = <<>>
  \/ Quiescent /\ outcome = "thrown" /\ trace = <<Ev("exc", 0, "", "", <<e>>)>>

\* C12: when the path of a file argument of an operation matches no mounted
\* module, the operation fails with ERR_VFSMODULE_NOT_FOUND_FMT and invokes
\* no hook and no module.
C12_UnmatchedPathFails ==
  ( /\ op.name # "none"
    /\ WellFormed(op.src) /\ WellFormed(op.dest)
    /\ Unmatched(op.src) \/ Unmatched(op.dest) )
  => \/ Unmatched(op.src) /\ ThrewSync(ModuleNotFound(op.src.path))
     \/ Unmatched(op.dest) /\ ThrewSync(ModuleNotFound(op.dest.path))

\* the transport a path's module declares, "undefined" when it declares none
Declared(path) == Modules[GetModuleFromPath(path)].transport

\* C13: hasSameTransport(src, dest) returns true exactly when both paths
\* resolve to internal modules, or both modules declare equal, non-empty
\* transports, or both paths resolve to the same module; two distinct
\* non-internal modules that declare no transport do not share one.
C13_SameTransportIff ==
  (op.name = "hasSameTransport" /\ ctl.t = "ret")
  => ( ctl.vals = <<True>>
       <=> \/ IsInternalModule(op.src.path) /\ IsInternalModule(op.dest.path)
           \/ /\ Declared(op.src.path) = Declared(op.dest.path)
              /\ Declared(op.src.path) # "undefined"
           \/ GetModuleFromPath(op.src.path) = GetModuleFromPath(op.dest.path) )

\* C14: every invocation of a module's request method is preceded by an
\* invocation of the pre-dispatch hook for the same module and method, and
\* its completion goes to the post-dispatch hook before anything else
\* happens with it.
C14_EveryRequestHooked ==
  /\ \A j \in Events("req") :
       \E i \in Events("pre") :
         i < j /\ trace[i].mod = trace[j].mod /\ trace[i].meth = trace[j].meth
  /\ \A i \in Events("comp") :
       i < Len(trace) =>
         /\ trace[i + 1].e = "post"
         /\ trace[i + 1].mod = trace[i].mod
         /\ trace[i + 1].meth = trace[i].meth

\* a stage of a transfer between two transports has answered
StageAnswered(meth, failed) ==
  \E i \in Events("comp") :
    /\ trace[i].n = 0
    /\ trace[i].meth = meth
    /\ Truthy(trace[i].vals[1]) = failed

\* C15: in a copy between two transports, when the 'read' on the source
\* module answers an error, no 'write' is ever issued and the callback
\* receives an error.
C15_ReadErrorAborts ==
  (op.name = "copy" /\ StageAnswered("read", TRUE))
  => /\ ~Dispatched({"write"})
     /\ outcome = "none"
     /\ \A i \in Events("cb") : Truthy(Arg(trace[i].vals, 1))
     /\ Quiescent => CbCount = 1

\* the read failed and the caller was told
C15_Witness ==
  /\ op.name = "copy"
  /\ StageAnswered("read", TRUE)
  /\ ~Dispatched({"write"})
  /\ CbCount = 1

\* C16: in a copy between two transports a failure of the read and a
\* failure of the write are both reported with ERR_VFS_TRANSFER_FMT; in a
\* move between two transports a failure of the copy and a failure of the
\* unlink are both reported with ERR_VFS_TRANSFER_FMT.
C16_StageFailuresAreTransferErrors ==
  ( /\ op.name \in {"copy", "move"}
    /\ \E meth \in {"read", "write", "unlink"} : StageAnswered(meth, TRUE) )
  => \A i \in Events("cb") :
       /\ Truthy(Arg(trace[i].vals, 1))
       /\ Head(Arg(trace[i].vals, 1)) = "ERR_VFS_TRANSFER_FMT"

\* the requests for one method that were handed to a module
Requests(meth) == {i \in Events("req") : trace[i].meth = meth}

\* C17: in a copy between two transports whose read and write both answer
\* without error: exactly one 'read' is issued on the source module, then
\* exactly one 'write' on the destination module, carrying the data the
\* read answered and a destination with the mime of the source; the
\* progress reported is exactly 50, 100; the callback receives no error and
\* the result of the write.
C17_CrossCopySucceeds ==
  /\ []( ( /\ op.name = "copy"
           /\ StageAnswered("read", FALSE)
           /\ StageAnswered("write", FALSE) )
         => /\ Cardinality(Requests("read")) = 1
            /\ Cardinality(Requests("write")) = 1
            /\ \A r \in Requests("read"), w \in Requests("write") :
                 /\ r < w
                 /\ trace[r].mod = GetModuleFromPath(op.src.path)
                 /\ trace[w].mod = GetModuleFromPath(op.dest.path)
            /\ outcome = "none"
            /\ CbCount = 1 =>
                 /\ op.options.dialog =>
                      /\ Len(ProgressSeq) = 2
                      /\ ProgressSeq[1].n = 50
                      /\ ProgressSeq[2].n = 100
                 /\ \A i \in Events("cb") : ~Truthy(Arg(trace[i].vals, 1))
            /\ Quiescent => CbCount = 1 )
  /\ [][(Top("copy.readCb") /\ ~Truthy(Arg(ctl.vals, 1))) =>
          ctl' = Ctl("backend", 0, GetModuleFromPath(op.dest.path), "write",
                     <<Mime(op.src), Arg(ctl.vals, 2)>>)
      ]_vars
  /\ [][(Top("copy.writeCb") /\ ~Truthy(Arg(ctl.vals, 1))) =>
          /\ ctl' = Ret(<<Arg(ctl.vals, 1), Arg(ctl.vals, 2)>>)
          /\ k' = <<Fn("user")>>
      ]_vars

\* a copy between two transports with a progress sink went through and
\* handed its caller the result of the write
C17_Witness ==
  /\ op.name = "copy"
  /\ op.options.dialog
  /\ StageAnswered("read", FALSE)
  /\ StageAnswered("write", FALSE)
  /\ Len(ProgressSeq) = 2
  /\ \E i \in Events("cb") : trace[i].vals = <<Undef, <<"backend result">>>>

\* C18: a VFS.move with options.overwrite === true, within one transport or
\* between two, issues no exists request at any stage, the delegated copy
\* included, and never reports ERR_VFS_FILE_EXISTS.
C18_MoveOverwriteSkipsExists ==
  (op.name = "move" /\ op.options.given /\ op.options.overwrite = TRUE)
  => /\ ~Dispatched({"exists"})
     /\ \A i \in Events("cb") :
          Arg(trace[i].vals, 1) # Fmt("ERR_VFSMODULE_MOVE_FMT", Msg("ERR_VFS_FILE_EXISTS"))

\* C19: a VFS.mkdir with options.overwrite === true issues no exists
\* request and dispatches the 'mkdir' request; without overwrite, when the
\* target exists, the callback receives ERR_VFS_FILE_EXISTS (wrapped by the
\* mkdir) and no 'mkdir' request is dispatched.
C19_MkdirOverwrite ==
  (op.name = "mkdir" /\ op.src.form = "file")
  => IF op.options.given /\ op.options.overwrite = TRUE
     THEN /\ ~Dispatched({"exists"})
          /\ Dispatched({"mkdir"})
     ELSE (\E i \in Events("exists") : trace[i].meth = "found")
          => /\ ~Dispatched({"mkdir"})
             /\ outcome = "none"
             /\ \A i \in Events("cb") :
                  trace[i].vals =
                    <<Fmt("ERR_VFSMODULE_MKDIR_FMT", Msg("ERR_VFS_FILE_EXISTS"))>>
             /\ Quiescent => CbCount = 1

\* the positions of the trace where the upload of a file is initiated: the
\* 'upload' request is handed to the module, or the internal transport or
\* the upload dialog is invoked
UploadInitiations ==
  {j \in DOMAIN trace :
     \/ trace[j].e = "upload"
     \/ trace[j].e = "req" /\ trace[j].meth = "upload"}
\* VFS.upload is over: the loop has ended and nothing is left to answer
UploadOver ==
  /\ op.name = "upload"
  /\ ctl.t = "idle"
  /\ ~UploadLooping
  /\ up.later = {}

\* C20: when VFS.upload is called with several files and a destination on a
\* mounted module, the per-file uploads
\* are initiated in the order of the files array, whatever the order in which
\* the hooks and the existence checks answer, and the callback is invoked
\* once per file.
C20_UploadsInArrayOrder ==
  (op.name = "upload" /\ up.n >= 2 /\ GetModuleFromPath(op.dest.path) # Null)
  => /\ \A j1, j2 \in UploadInitiations : j1 < j2 => trace[j1].n <= trace[j2].n
     /\ UploadOver
        => \A i \in 1..up.n :
             Cardinality({j \in Events("cb") : trace[j].n = i}) = 1

\* the busy indicator of the download is shown
LoadingShown ==
  Cardinality({j \in Events("loading") : trace[j].meth = "create"})
    > Cardinality({j \in Events("loading") : trace[j].meth = "destroy"})

\* C21: a VFS.download that got past its argument checks destroys the busy
\* indicator it created, on the internal and on the non-internal path, no
\* later than it invokes the callback, and has destroyed it when the call is
\* over, whether the download succeeded or failed.
C21_LoadingDestroyed ==
  (op.name = "download" /\ Events("loading") # {})
  => /\ Events("cb") # {} => ~LoadingShown
     /\ Quiescent => ~LoadingShown

\* a file argument that is neither a path string, an object with a path nor
\* a descriptor
IllFormed(item) == item.form = "other"
\* a file argument the operation has nothing to object to, or none
Resolves(item) == item.form = "none" \/ (WellFormed(item) /\ ~Unmatched(item))
\* the errors the operations throw for a file argument of the wrong kind
ExpectErrors ==
  {"ERR_VFS_EXPECT_FILE", "ERR_VFS_EXPECT_SRC_FILE", "ERR_VFS_EXPECT_DST_FILE",
   "ERR_VFS_DOWNLOAD_NO_FILE"}

\* C22: a public operation called with a file argument that is neither a
\* path string, an object with a path nor a descriptor (its other file
\* argument, if any, being a path on a mounted module) throws an argument
\* error synchronously: the callback, the hooks and the modules are never
\* invoked.
C22_IllFormedArgumentThrows ==
  ( /\ op.name # "none"
    /\ \/ IllFormed(op.src) /\ Resolves(op.dest)
       \/ IllFormed(op.dest) /\ Resolves(op.src) )
  => \E e \in ExpectErrors : ThrewSync(Msg(e))

\* the positions of the 'vfs:unlink' notifications in the trace
UnlinkMessages == {j \in Events("msg") : trace[j].meth = "vfs:unlink"}

C24_NoPostHookAfterHijack ==
  /\ \A i \in Events("hijack"), j \in Events("post") : trace[i].n # trace[j].n
  /\ \A j \in Events("post") :
       /\ \E i \in Events("comp") : i < j /\ trace[i].n = trace[j].n
       /\ \A i \in Events("post") : trace[i].n = trace[j].n => i = j
  /\ ctl.t = "onVFSRequestCompleted" => trace[Len(trace)].e = "post"

\* the pre-dispatch hook has hijacked the request and the caller's callback
\* was invoked without any invocation of the post-dispatch hook
C24_Witness ==
  /\ Events("hijack") # {}
  /\ Events("cb") # {}
  /\ Events("post") = {}
  /\ Events("comp") = {}

\* the value v is an error of the 'exists' request
IsExistsError(v) == \E i \in DOMAIN v : v[i] = "ERR_VFSMODULE_EXISTS_FMT"

\* C25: in VFS.copy, VFS.move and VFS.mkdir, when the 'exists' request
\* answers an error and a falsy result, existsWrapper passes no error on, the
\* operation goes on to its transfer or mkdir stage as for an absent
\* destination, and the error of the 'exists' request never reaches the
\* caller.
C25_ExistsErrorIgnored ==
  /\ [](op.name \in {"copy", "move", "mkdir"}
        => \A j \in Events("cb") : ~IsExistsError(Arg(trace[j].vals, 1)))
  /\ [][(Top("existsWrapper.cb") /\ Truthy(Arg(ctl.vals, 1)) /\ ~Truthy(Arg(ctl.vals, 2)))
         => /\ ctl' = Ret(<<>>)
            /\ k' = Tail(k)
            /\ trace' = Append(trace, Ev("exists", 0, "", "absent", <<>>))]_vars
  /\ [][(Top("copy.existsCb") /\ ctl.vals = <<>>)
         => trace'[Len(trace) + 1] = Ev("doRequest", 0, "", "copy", <<>>)]_vars
  /\ [][(Top("move.existsCb") /\ ctl.vals = <<>>)
         => trace'[Len(trace) + 1] = Ev("doRequest", 0, "", "move", <<>>)]_vars
  /\ [][(Top("mkdir.existsCb") /\ ctl.vals = <<>>)
         => /\ ctl'.t = "onVFSRequest"
            /\ ctl'.meth = "mkdir"]_vars

\* the 'exists' request of a VFS.mkdir has failed and the directory was made
C25_Witness ==
  /\ op.name = "mkdir"
  /\ \E i \in Events("comp") : trace[i].meth = "exists" /\ Truthy(trace[i].vals[1])
  /\ \E i \in Events("exists") : trace[i].meth = "absent"
  /\ \E i \in Events("msg") : trace[i].meth = "vfs:mkdir"
  /\ \E j \in Events("cb") : ~Truthy(Arg(trace[j].vals, 1))

\* the position of the 'unlink' a move between two transports issues
UnlinkRequests == {j \in Events("req") : trace[j].n = 0 /\ trace[j].meth = "unlink"}

\* C26: in a move between two transports whose copy succeeded and whose
\* 'unlink' on the source module answers an error, the callback of the move
\* receives the error as a transfer error, no request follows the unlink
\* (nothing removes the destination that was written), the 'vfs:copy'
\* notification was issued and the 'vfs:move' notification never is.
C26_UnlinkFailureNoRollback ==
  ( /\ op.name = "move"
    /\ \E i \in Events("copycb") : ~Truthy(Arg(trace[i].vals, 1))
    /\ StageAnswered("unlink", TRUE) )
  => /\ Cardinality(UnlinkRequests) = 1
     /\ \A u \in UnlinkRequests :
          /\ trace[u].mod = GetModuleFromPath(op.src.path)
          /\ \A j \in Events("pre") \cup Events("req") : j <= u
     /\ \E i \in Events("msg") : trace[i].meth = "vfs:copy"
     /\ \A i \in Events("msg") : trace[i].meth # "vfs:move"
     /\ outcome = "none"
     /\ \A j \in Events("cb") :
          /\ Truthy(Arg(trace[j].vals, 1))
          /\ Head(Arg(trace[j].vals, 1)) = "ERR_VFS_TRANSFER_FMT"
     /\ Quiescent => CbCount = 1

\* such a move is over: the caller has the transfer error
C26_Witness ==
  /\ op.name = "move"
  /\ StageAnswered("unlink", TRUE)
  /\ StageAnswered("write", FALSE)
  /\ Quiescent
  /\ \E j \in Events("cb") :
       trace[j].vals[1] = Fmt("ERR_VFS_TRANSFER_FMT", <<"backend error">>)

\* the answers of Utils.ajax of one kind, "onsuccess" or "onerror"
Fetched(kind) == {i \in Events("fetched") : trace[i].meth = kind}

\* C27: VFS.download never invokes the callback with a falsy error when it
\* has no bytes to give: when the fetch of the resolved URL or the 'read' on
\* the module has failed the error argument is truthy, and when the error
\* argument is falsy the result argument is what the fetch, or the read,
\* has delivered.
C27_DownloadErrorValues ==
  op.name = "download"
  => \A j \in Events("cb") :
       LET v == trace[j].vals
       IN /\ (Fetched("onerror") # {} \/ StageAnswered("read", TRUE))
             => Truthy(Arg(v, 1))
          /\ ~Truthy(Arg(v, 1))
             => /\ Len(v) >= 2
                /\ \/ \E i \in Fetched("onsuccess") : trace[i].vals = <<v[2]>>
                   \/ StageAnswered("read", FALSE)

====
